---- MODULE Spec2Model ----
(***************************************************************************)
(* Model of api/resource/resource.go: the Resource record (a structured    *)
(* document plus provenance fields), its mutators, the Replace / Merge     *)
(* combinators, DeepCopy, and the comparison predicates.                   *)
(*                                                                         *)
(* Go values that are references are modelled as references: a Resource    *)
(* holds the address of its document in the heap `docs`, and each slice    *)
(* field is a (backing array address, length) pair into the heap `strs`    *)
(* (string arrays) or `ids` (ResId arrays); the capacity of a slice is the *)
(* length of its backing array.  Two Resources alias a document or an      *)
(* array exactly when they hold the same address.                          *)
(***************************************************************************)
EXTENDS Integers, Sequences, FiniteSets, TLC

VARIABLES
  res,    \* slot -> Resource struct (the program's *Resource variables)
  docs,   \* heap of documents behind ifc.Kunstructured
  strs,   \* heap of []string backing arrays
  ids,    \* heap of []resid.ResId backing arrays
  last,   \* the call just made: method, receiver, argument, boolean result
  calls   \* mutating calls made so far

vars == <<res, docs, strs, ids, last, calls>>

(***************************************************************************)
(* Bounds of the model.                                                    *)
(***************************************************************************)
\* longest prefix / suffix stack drawn for the comparison predicates
MaxStack == 2
\* longest referred-by list drawn for ReferencesEqual
MaxRefs == 3
\* mutating calls a run makes on the two Resources
MaxCalls == 3

(***************************************************************************)
(* Input domains.                                                          *)
(***************************************************************************)
Slots == {1, 2}
SlotSeq == <<1, 2>>

LabelKeys == {"env", "team"}
LabelVals == {"x", "y"}
AnnoKeys == {"note"}
AnnoVals == {"x", "y"}
DataKeys == {"k1", "k2"}
DataVals == {"v1", "v2"}
Affixes == {"p", "q"}
VarNames == {"V", "W"}

EmptyMap == [k \in {} |-> ""]

\* all string maps with keys among K and values among V
Maps(K, V) == UNION { [D -> V] : D \in SUBSET K }

\* the "data" field of a document: absent, present but not a mapping, or a mapping
NoData == [tag |-> "absent", val |-> EmptyMap]
ScalarData == [tag |-> "scalar", val |-> EmptyMap]
MapData(m) == [tag |-> "map", val |-> m]

NewResIdWithNamespace(g, n, ns) == [gvk |-> g, name |-> n, namespace |-> ns]
ZeroResId == NewResIdWithNamespace([Group |-> "", Version |-> "", Kind |-> ""], "", "")
ConfigMapGvk == [Group |-> "", Version |-> "v1", Kind |-> "ConfigMap"]
DeploymentGvk == [Group |-> "apps", Version |-> "v1", Kind |-> "Deployment"]
IdA == NewResIdWithNamespace(DeploymentGvk, "A", "")
IdB == NewResIdWithNamespace(DeploymentGvk, "B", "")
SampleIds == {IdA, IdB}

(***************************************************************************)
(* Go slices over a heap of backing arrays.                                *)
(***************************************************************************)
NilSlice == [arr |-> 0, len |-> 0]

Cap(heap, s) == IF s.arr = 0 THEN 0 ELSE Len(heap[s.arr])

\* the elements a slice denotes
Elems(heap, s) == IF s.arr = 0 THEN <<>> ELSE SubSeq(heap[s.arr], 1, s.len)

\* growth of a full backing array on append of one element
GrowCap(oldcap) == IF oldcap = 0 THEN 1 ELSE 2 * oldcap

\* n zero values
RECURSIVE Zeros(_, _)
Zeros(zero, n) == IF n <= 0 THEN <<>> ELSE <<zero>> \o Zeros(zero, n - 1)

\* append(s, x): writes in place when capacity allows, else moves to a new array
\* of the grown capacity, whose cells past the new length hold the zero value
append(heap, s, x, zero) ==
  IF s.len < Cap(heap, s)
  THEN [heap |-> [heap EXCEPT ![s.arr][s.len + 1] = x],
        slice |-> [s EXCEPT !.len = s.len + 1]]
  ELSE LET newcap == GrowCap(Cap(heap, s))
           a == Elems(heap, s) \o <<x>> \o Zeros(zero, newcap - (s.len + 1))
       IN [heap |-> Append(heap, a),
           slice |-> [arr |-> Len(heap) + 1, len |-> s.len + 1]]

\* a mutant of copyStringSlice: the slice header is returned as is
copyStringSliceAlias(heap, s) == [heap |-> heap, slice |-> s]

\* copyStringSlice: nil stays nil; else make(len(s)) and copy
copyStringSlice(heap, s) ==
  IF s.arr = 0
  THEN [heap |-> heap, slice |-> NilSlice]
  ELSE [heap |-> Append(heap, SubSeq(heap[s.arr], 1, s.len)),
        slice |-> [arr |-> Len(heap) + 1, len |-> s.len]]

(***************************************************************************)
(* String maps.                                                            *)
(***************************************************************************)
\* for key, value := range m { result[key] = value }
Overlay(result, m) == m @@ result

RECURSIVE mergeLoop(_, _, _)
mergeLoop(result, maps, n) ==
  IF n > Len(maps) THEN result
  ELSE mergeLoop(Overlay(result, maps[n]), maps, n + 1)

\* a mutant of mergeStringMaps: an existing key is not overwritten
RECURSIVE mergeLoopKeepFirst(_, _, _)
mergeLoopKeepFirst(result, maps, n) ==
  IF n > Len(maps) THEN result
  ELSE mergeLoopKeepFirst(Overlay(maps[n], result), maps, n + 1)

mergeStringMapsKeepFirst(maps) == mergeLoopKeepFirst(EmptyMap, maps, 1)

mergeStringMaps(maps) == mergeLoop(EmptyMap, maps, 1)

RECURSIVE mergeDataLoop(_, _, _)
mergeDataLoop(mergedMap, maps, n) ==
  IF n > Len(maps) THEN mergedMap
  ELSE mergeDataLoop(IF maps[n].data.tag = "map"
                     THEN Overlay(mergedMap, maps[n].data.val)
                     ELSE mergedMap,
                     maps, n + 1)

\* a mutant of mergeConfigmap: a key already merged is not overwritten
RECURSIVE mergeDataLoopKeepFirst(_, _, _)
mergeDataLoopKeepFirst(mergedMap, maps, n) ==
  IF n > Len(maps) THEN mergedMap
  ELSE mergeDataLoopKeepFirst(IF maps[n].data.tag = "map"
                              THEN Overlay(maps[n].data.val, mergedMap)
                              ELSE mergedMap,
                              maps, n + 1)

mergeConfigmapKeepFirst(mergedTo, maps) ==
  [mergedTo EXCEPT !.data = MapData(mergeDataLoopKeepFirst(EmptyMap, maps, 1))]

\* mergeConfigmap: mergedTo["data"] = union of the "data" mappings of maps, later wins
mergeConfigmap(mergedTo, maps) ==
  [mergedTo EXCEPT !.data = MapData(mergeDataLoop(EmptyMap, maps, 1))]

(***************************************************************************)
(* The store: the Resources and the heaps they point into.  The operators  *)
(* below take a store and return the store after the method has run.       *)
(***************************************************************************)
\* v, evaluated once, handed to F
Bind(v, F(_)) == CHOOSE y \in { F(x) : x \in {v} } : TRUE

\* the store after the statements F1; F2 (; F3; F4; F5) run in that order
Seq2(st, F1(_), F2(_)) == Bind(Bind(st, F1), F2)
Seq5(st, F1(_), F2(_), F3(_), F4(_), F5(_)) ==
  Bind(Bind(Bind(Bind(Bind(st, F1), F2), F3), F4), F5)

Doc(st, r) == st.docs[st.res[r].kunStr]

\* ifc.Kunstructured: Copy is a deep copy, so the copy is a new heap object
KunstructCopy(st, r) == Doc(st, r)

GetLabels(st, r) == Doc(st, r).labels
GetAnnotations(st, r) == Doc(st, r).annotations
GetName(st, r) == Doc(st, r).name
GetGvk(st, r) == Doc(st, r).gvk
\* namespace, _ := r.kunStr.GetString("metadata.namespace"): "" when absent
GetNamespace(st, r) == Doc(st, r).namespace
GetOriginalName(st, r) == st.res[r].originalName
GetOriginalNs(st, r) == st.res[r].originalNs

SetLabels(st, r, m) == [st EXCEPT !.docs[st.res[r].kunStr].labels = m]
SetAnnotations(st, r, m) == [st EXCEPT !.docs[st.res[r].kunStr].annotations = m]
SetName(st, r, n) == [st EXCEPT !.docs[st.res[r].kunStr].name = n]
SetNamespace(st, r, n) == [st EXCEPT !.docs[st.res[r].kunStr].namespace = n]
SetGvk(st, r, g) == [st EXCEPT !.docs[st.res[r].kunStr].gvk = g]
SetOptions(st, r, o) == [st EXCEPT !.res[r].options = o]

\* r.kunStr = incoming.kunStr.Copy()
ResetPrimaryData(st, r, incoming) ==
  LET s1 == [st EXCEPT !.docs = Append(st.docs, KunstructCopy(st, incoming))]
  IN [s1 EXCEPT !.res[r].kunStr = Len(s1.docs)]

GetRefBy(st, r) == Elems(st.ids, st.res[r].refBy)
GetRefVarNames(st, r) == Elems(st.strs, st.res[r].refVarNames)
GetNamePrefixes(st, r) == Elems(st.strs, st.res[r].namePrefixes)
GetNameSuffixes(st, r) == Elems(st.strs, st.res[r].nameSuffixes)

\* copyRefBy: nil stays nil; else make(len(r.refBy)) and copy
copyRefBy(heap, s) ==
  IF s.arr = 0
  THEN [heap |-> heap, slice |-> NilSlice]
  ELSE [heap |-> Append(heap, SubSeq(heap[s.arr], 1, s.len)),
        slice |-> [arr |-> Len(heap) + 1, len |-> s.len]]

\* r.refBy = other.copyRefBy()
CopyRefByField(st, r, other) ==
  LET c == copyRefBy(st.ids, st.res[other].refBy)
  IN [st EXCEPT !.ids = c.heap, !.res[r].refBy = c.slice]

\* r.refVarNames = copyStringSlice(other.refVarNames)
CopyRefVarNamesField(st, r, other) ==
  LET c == copyStringSlice(st.strs, st.res[other].refVarNames)
  IN [st EXCEPT !.strs = c.heap, !.res[r].refVarNames = c.slice]

\* r.namePrefixes = copyStringSlice(other.namePrefixes)
CopyNamePrefixesField(st, r, other) ==
  LET c == copyStringSlice(st.strs, st.res[other].namePrefixes)
  IN [st EXCEPT !.strs = c.heap, !.res[r].namePrefixes = c.slice]

\* r.nameSuffixes = copyStringSlice(other.nameSuffixes)
CopyNameSuffixesField(st, r, other) ==
  LET c == copyStringSlice(st.strs, st.res[other].nameSuffixes)
  IN [st EXCEPT !.strs = c.heap, !.res[r].nameSuffixes = c.slice]

\* r.originalName, r.originalNs, r.options = other's
CopyScalarFields(st, r, other) ==
  [st EXCEPT !.res[r].originalName = st.res[other].originalName,
             !.res[r].originalNs = st.res[other].originalNs,
             !.res[r].options = st.res[other].options]

\* a mutant of copyOtherFields: the prefix stack is left as it was
copyOtherFieldsNoPrefixes(st, r, other) ==
  Seq5(st, LAMBDA s : CopyScalarFields(s, r, other),
           LAMBDA s : CopyRefByField(s, r, other),
           LAMBDA s : CopyRefVarNamesField(s, r, other),
           LAMBDA s : s,
           LAMBDA s : CopyNameSuffixesField(s, r, other))

copyOtherFields(st, r, other) ==
  Seq5(st, LAMBDA s : CopyScalarFields(s, r, other),
           LAMBDA s : CopyRefByField(s, r, other),
           LAMBDA s : CopyRefVarNamesField(s, r, other),
           LAMBDA s : CopyNamePrefixesField(s, r, other),
           LAMBDA s : CopyNameSuffixesField(s, r, other))

\* the zero Resource a composite literal starts from
ZeroResource(k) ==
  [kunStr |-> k, originalName |-> "", originalNs |-> "", options |-> "nil",
   refBy |-> NilSlice, refVarNames |-> NilSlice,
   namePrefixes |-> NilSlice, nameSuffixes |-> NilSlice]

\* rc := &Resource{kunStr: r.kunStr.Copy()}, held in slot c
NewCopy(st, r, c) ==
  LET s1 == [st EXCEPT !.docs = Append(st.docs, KunstructCopy(st, r))]
  IN [s1 EXCEPT !.res[c] = ZeroResource(Len(s1.docs))]

\* a mutant of DeepCopy: the document is shared, not copied
DeepCopyShared(st, r, c) ==
  Seq2(st, LAMBDA s : [s EXCEPT !.res[c] = ZeroResource(s.res[r].kunStr)],
           LAMBDA s : copyOtherFields(s, c, r))

\* slot c := r.DeepCopy()
DeepCopy(st, r, c) ==
  Seq2(st, LAMBDA s : NewCopy(s, r, c),
           LAMBDA s : copyOtherFields(s, c, r))

Replace(st, r, other) ==
  Seq5(st, LAMBDA s : SetLabels(s, r, mergeStringMaps(<<GetLabels(s, other), GetLabels(s, r)>>)),
           LAMBDA s : SetAnnotations(s, r,
                        mergeStringMaps(<<GetAnnotations(s, other), GetAnnotations(s, r)>>)),
           LAMBDA s : SetName(s, r, GetName(s, other)),
           LAMBDA s : SetNamespace(s, r, GetNamespace(s, other)),
           LAMBDA s : copyOtherFields(s, r, other))

\* ifc.Kunstructured: Map is the document's own mapping, not a copy of it
Map(st, r) == Doc(st, r)

\* mergeConfigmap(r.kunStr.Map(), other.Map(), r.Map()): the assignment to
\* "data" of the first argument lands in r's document
MergeData(st, r, other) ==
  [st EXCEPT !.docs[st.res[r].kunStr] =
     mergeConfigmap(Map(st, r), <<Map(st, other), Map(st, r)>>)]

Merge(st, r, other) ==
  Seq2(st, LAMBDA s : Replace(s, r, other),
           LAMBDA s : MergeData(s, r, other))

AddNamePrefix(st, r, p) ==
  LET a == append(st.strs, st.res[r].namePrefixes, p, "")
  IN [st EXCEPT !.strs = a.heap, !.res[r].namePrefixes = a.slice]

AddNameSuffix(st, r, s) ==
  LET a == append(st.strs, st.res[r].nameSuffixes, s, "")
  IN [st EXCEPT !.strs = a.heap, !.res[r].nameSuffixes = a.slice]

\* a mutant of AppendRefBy: the new id takes the place of the last one
AppendRefByOverLast(st, r, id) ==
  LET s == st.res[r].refBy
      a == append(st.ids, IF s.len = 0 THEN s ELSE [s EXCEPT !.len = s.len - 1], id, ZeroResId)
  IN [st EXCEPT !.ids = a.heap, !.res[r].refBy = a.slice]

AppendRefBy(st, r, id) ==
  LET a == append(st.ids, st.res[r].refBy, id, ZeroResId)
  IN [st EXCEPT !.ids = a.heap, !.res[r].refBy = a.slice]

\* variable is a types.Var; only variable.Name is kept
AppendRefVarName(st, r, variable) ==
  LET a == append(st.strs, st.res[r].refVarNames, variable.Name, "")
  IN [st EXCEPT !.strs = a.heap, !.res[r].refVarNames = a.slice]

OrgId(st, r) ==
  NewResIdWithNamespace(GetGvk(st, r), GetOriginalName(st, r), GetOriginalNs(st, r))

CurId(st, r) ==
  NewResIdWithNamespace(GetGvk(st, r), GetName(st, r), GetNamespace(st, r))

(***************************************************************************)
(* Comparison predicates.                                                  *)
(***************************************************************************)
\* a mutant of GetOutermostNamePrefix: the first element, not the last
GetInnermostNamePrefix(st, r) ==
  LET s == st.res[r].namePrefixes
  IN IF s.len = 0 THEN "" ELSE st.strs[s.arr][1]

GetOutermostNamePrefix(st, r) ==
  LET s == st.res[r].namePrefixes
  IN IF s.len = 0 THEN "" ELSE st.strs[s.arr][s.len]

GetOutermostNameSuffix(st, r) ==
  LET s == st.res[r].nameSuffixes
  IN IF s.len = 0 THEN "" ELSE st.strs[s.arr][s.len]

\* for i := 0; i <= compareLen-1; i++ { if a[alen-i] != b[blen-i] { return false } }
\* (Go indexes from 0, sequences from 1)
RECURSIVE sameEndingLoop(_, _, _, _)
sameEndingLoop(a, b, compareLen, i) ==
  IF i > compareLen - 1 THEN TRUE
  ELSE IF a[(Len(a) - 1 - i) + 1] # b[(Len(b) - 1 - i) + 1] THEN FALSE
  ELSE sameEndingLoop(a, b, compareLen, i + 1)

\* a mutant of sameEndingSubarray: the comparison runs from the front
sameBeginningSubarray(a, b) ==
  LET compareLen == IF Len(a) < Len(b) THEN Len(a) ELSE Len(b)
  IN \A i \in 1..compareLen : a[i] = b[i]

sameEndingSubarray(a, b) ==
  LET compareLen == IF Len(a) < Len(b) THEN Len(a) ELSE Len(b)
  IN IF compareLen = 0 THEN TRUE ELSE sameEndingLoop(a, b, compareLen, 0)

OutermostPrefixSuffixEquals(st, r, o) ==
  /\ GetOutermostNamePrefix(st, r) = GetOutermostNamePrefix(st, o)
  /\ GetOutermostNameSuffix(st, r) = GetOutermostNameSuffix(st, o)

PrefixesSuffixesEquals(st, r, o) ==
  /\ sameEndingSubarray(GetNamePrefixes(st, r), GetNamePrefixes(st, o))
  /\ sameEndingSubarray(GetNameSuffixes(st, r), GetNameSuffixes(st, o))

\* for _, ref := range o.refBy { setOther[ref] = true }
RECURSIVE fillSet(_, _, _)
fillSet(set, refs, n) ==
  IF n > Len(refs) THEN set ELSE fillSet(set \cup {refs[n]}, refs, n + 1)

\* for _, ref := range r.refBy { if !setOther[ref] { return false }; setSelf[ref] = true }
\* return len(setSelf) == len(setOther)
RECURSIVE referencesLoop(_, _, _, _)
referencesLoop(refs, setOther, setSelf, n) ==
  IF n > Len(refs) THEN Cardinality(setSelf) = Cardinality(setOther)
  ELSE IF refs[n] \notin setOther THEN FALSE
  ELSE referencesLoop(refs, setOther, setSelf \cup {refs[n]}, n + 1)

\* a mutant of ReferencesEqual: the sizes of the two sets are not compared
ReferencesIncluded(st, r, o) ==
  \A n \in 1..Len(GetRefBy(st, r)) :
    GetRefBy(st, r)[n] \in fillSet({}, GetRefBy(st, o), 1)

ReferencesEqual(st, r, o) ==
  referencesLoop(GetRefBy(st, r), fillSet({}, GetRefBy(st, o), 1), {}, 1)

KunstructEqual(st, r, o) == Doc(st, r) = Doc(st, o)

Equals(st, r, o) == ReferencesEqual(st, r, o) /\ KunstructEqual(st, r, o)

(***************************************************************************)
(* Heap bookkeeping: objects no Resource points to are collected and the   *)
(* remaining ones are numbered in the order the Resources' fields reach    *)
(* them, so that a state does not depend on the addresses allocation gave. *)
(***************************************************************************)
RECURSIVE Reached(_, _, _)
Reached(refs, n, acc) ==
  IF n > Len(refs) THEN acc
  ELSE Reached(refs, n + 1,
               IF refs[n] = 0 \/ (\E k \in 1..Len(acc) : acc[k] = refs[n])
               THEN acc ELSE Append(acc, refs[n]))

Renumber(order, a) ==
  IF a = 0 THEN 0 ELSE CHOOSE k \in 1..Len(order) : order[k] = a

RECURSIVE Compact(_, _, _)
Compact(heap, order, n) ==
  IF n > Len(order) THEN <<>> ELSE <<heap[order[n]]>> \o Compact(heap, order, n + 1)

\* F(r) for every slot r, in slot order
RECURSIVE Flatten(_, _)
Flatten(F(_), n) ==
  IF n > Len(SlotSeq) THEN <<>> ELSE F(SlotSeq[n]) \o Flatten(F, n + 1)

Collect(st) ==
  LET dOrd == Reached(Flatten(LAMBDA r : <<st.res[r].kunStr>>, 1), 1, <<>>)
      sOrd == Reached(Flatten(LAMBDA r : <<st.res[r].refVarNames.arr,
                                           st.res[r].namePrefixes.arr,
                                           st.res[r].nameSuffixes.arr>>, 1), 1, <<>>)
      iOrd == Reached(Flatten(LAMBDA r : <<st.res[r].refBy.arr>>, 1), 1, <<>>)
      mv(ord, s) == [s EXCEPT !.arr = Renumber(ord, s.arr)]
      moved(r) == [st.res[r] EXCEPT !.kunStr = Renumber(dOrd, st.res[r].kunStr),
                                    !.refBy = mv(iOrd, st.res[r].refBy),
                                    !.refVarNames = mv(sOrd, st.res[r].refVarNames),
                                    !.namePrefixes = mv(sOrd, st.res[r].namePrefixes),
                                    !.nameSuffixes = mv(sOrd, st.res[r].nameSuffixes)]
  IN [res |-> Flatten(LAMBDA r : <<moved(r)>>, 1),
      docs |-> Compact(st.docs, dOrd, 1),
      strs |-> Compact(st.strs, sOrd, 1),
      ids |-> Compact(st.ids, iOrd, 1)]

Cur == [res |-> res, docs |-> docs, strs |-> strs, ids |-> ids]

\* the store st becomes the next state
Commit(st) ==
  /\ calls < MaxCalls
  /\ calls' = calls + 1
  /\ \E s \in {st} : \E n \in {Collect(s)} :
     /\ res' = n.res
     /\ docs' = n.docs
     /\ strs' = n.strs
     /\ ids' = n.ids

Call(op, r, o, ret) == last' = [op |-> op, self |-> r, other |-> o, ret |-> ret]

(***************************************************************************)
(* Steps: one call of a method on the Resource in slot r.                  *)
(***************************************************************************)
SetNameStep(r, n) == Commit(SetName(Cur, r, n)) /\ Call("SetName", r, r, FALSE)

SetNamespaceStep(r, n) == Commit(SetNamespace(Cur, r, n)) /\ Call("SetNamespace", r, r, FALSE)

SetGvkStep(r, g) == Commit(SetGvk(Cur, r, g)) /\ Call("SetGvk", r, r, FALSE)

SetLabelsStep(r, m) == Commit(SetLabels(Cur, r, m)) /\ Call("SetLabels", r, r, FALSE)

SetAnnotationsStep(r, m) ==
  Commit(SetAnnotations(Cur, r, m)) /\ Call("SetAnnotations", r, r, FALSE)

ResetPrimaryDataStep(r, incoming) ==
  Commit(ResetPrimaryData(Cur, r, incoming)) /\ Call("ResetPrimaryData", r, incoming, FALSE)

AddNamePrefixStep(r, p) ==
  /\ Commit(AddNamePrefix(Cur, r, p))
  /\ Call("AddNamePrefix", r, r, FALSE)

AddNameSuffixStep(r, s) ==
  /\ Commit(AddNameSuffix(Cur, r, s))
  /\ Call("AddNameSuffix", r, r, FALSE)

AppendRefByStep(r, id) ==
  /\ Commit(AppendRefBy(Cur, r, id))
  /\ Call("AppendRefBy", r, r, FALSE)

AppendRefVarNameStep(r, v) ==
  /\ Commit(AppendRefVarName(Cur, r, [Name |-> v]))
  /\ Call("AppendRefVarName", r, r, FALSE)

ReplaceStep(r, other) == Commit(Replace(Cur, r, other)) /\ Call("Replace", r, other, FALSE)

MergeStep(r, other) == Commit(Merge(Cur, r, other)) /\ Call("Merge", r, other, FALSE)

\* slot c := r.DeepCopy(); the Resource slot c held is dropped
DeepCopyStep(r, c) ==
  /\ c # r
  /\ Commit(DeepCopy(Cur, r, c))
  /\ Call("DeepCopy", c, r, FALSE)

PrefixesSuffixesEqualsStep(r, o) ==
  /\ UNCHANGED <<res, docs, strs, ids, calls>>
  /\ Call("PrefixesSuffixesEquals", r, o, PrefixesSuffixesEquals(Cur, r, o))

OutermostPrefixSuffixEqualsStep(r, o) ==
  /\ UNCHANGED <<res, docs, strs, ids, calls>>
  /\ Call("OutermostPrefixSuffixEquals", r, o, OutermostPrefixSuffixEquals(Cur, r, o))

ReferencesEqualStep(r, o) ==
  /\ UNCHANGED <<res, docs, strs, ids, calls>>
  /\ Call("ReferencesEqual", r, o, ReferencesEqual(Cur, r, o))

(***************************************************************************)
(* Construction.  A Resource is made by the factory from a loaded          *)
(* document: the original name and namespace are the document's, the       *)
(* lists are nil.                                                          *)
(***************************************************************************)
Document(g, n, ns, l, a, d) ==
  [gvk |-> g, name |-> n, namespace |-> ns, labels |-> l, annotations |-> a, data |-> d]

Loaded(st, r, d, opts) ==
  LET s1 == [st EXCEPT !.docs = Append(st.docs, d)]
  IN [s1 EXCEPT !.res[r] = [ZeroResource(Len(s1.docs)) EXCEPT
                              !.originalName = d.name,
                              !.originalNs = d.namespace,
                              !.options = opts]]

EmptyStore ==
  [res |-> Flatten(LAMBDA r : <<ZeroResource(0)>>, 1), docs |-> <<>>, strs |-> <<>>, ids |-> <<>>]

LoadTwo(d1, o1, d2, o2) == Loaded(Loaded(EmptyStore, 1, d1, o1), 2, d2, o2)

Start(st) ==
  LET n == Collect(st)
  IN /\ res = n.res
     /\ docs = n.docs
     /\ strs = n.strs
     /\ ids = n.ids
     /\ calls = 0
     /\ last = [op |-> "Load", self |-> 1, other |-> 2, ret |-> FALSE]

RECURSIVE PushAll(_, _, _, _, _)
\* the store after Op(st, r, x) for each x of xs in turn
PushAll(Op(_, _, _), st, r, xs, n) ==
  IF n > Len(xs) THEN st
  ELSE Bind(Op(st, r, xs[n]), LAMBDA s : PushAll(Op, s, r, xs, n + 1))

\* all sequences over V of length at most n
SeqsUpTo(V, n) == UNION { [1..k -> V] : k \in 0..n }

PlainDoc(n, ns) == Document(ConfigMapGvk, n, ns, EmptyMap, EmptyMap, NoData)

(***************************************************************************)
(* SpecCtx: two Resources that went through nested overlay contexts, and   *)
(* the two context comparisons applied to them.                            *)
(***************************************************************************)
StackVals == {"", "p"}

InitCtx ==
  \E p1, p2, s1, s2 \in SeqsUpTo(StackVals, MaxStack) :
    Start(PushAll(AddNameSuffix,
            PushAll(AddNameSuffix,
              PushAll(AddNamePrefix,
                PushAll(AddNamePrefix,
                  LoadTwo(PlainDoc("a", ""), "nil", PlainDoc("b", ""), "nil"),
                  1, p1, 1),
                2, p2, 1),
              1, s1, 1),
            2, s2, 1))

NextCtx ==
  \E r, o \in Slots :
    /\ r # o
    /\ \/ PrefixesSuffixesEqualsStep(r, o)
       \/ OutermostPrefixSuffixEqualsStep(r, o)

SpecCtx == InitCtx /\ [][NextCtx]_vars

(***************************************************************************)
(* SpecRef: two Resources with referred-by lists, and ReferencesEqual.     *)
(***************************************************************************)
InitRef ==
  \E l1, l2 \in SeqsUpTo(SampleIds, MaxRefs) :
    Start(PushAll(AppendRefBy,
            PushAll(AppendRefBy,
              LoadTwo(PlainDoc("a", ""), "nil", PlainDoc("b", ""), "nil"),
              1, l1, 1),
            2, l2, 1))

NextRef == \E r, o \in Slots : ReferencesEqualStep(r, o)

SpecRef == InitRef /\ [][NextRef]_vars

(***************************************************************************)
(* SpecMeta: two loaded Resources whose labels and annotations are set by  *)
(* transformers, and one replaces the other.                               *)
(***************************************************************************)
InitMeta ==
  \E l1, l2 \in Maps(LabelKeys, LabelVals), a1, a2 \in Maps(AnnoKeys, AnnoVals) :
    Start(LoadTwo(Document(ConfigMapGvk, "a", "", l1, a1, NoData), "nil",
                  Document(ConfigMapGvk, "b", "ns", l2, a2, NoData), "g1"))

NextMeta ==
  \/ \E r \in Slots, m \in Maps(LabelKeys, LabelVals) : SetLabelsStep(r, m)
  \/ \E r \in Slots, m \in Maps(AnnoKeys, AnnoVals) : SetAnnotationsStep(r, m)
  \/ \E r, o \in Slots : ReplaceStep(r, o)

SpecMeta == InitMeta /\ [][NextMeta]_vars

(***************************************************************************)
(* SpecLife: the pipeline.  Slot 1 holds a Resource just loaded from an    *)
(* overlay; slot 2 holds a Resource of a base that went through overlay    *)
(* contexts and was referred to.  Any method is then called on either,     *)
(* the two-Resource methods with the other Resource as argument.           *)
(***************************************************************************)
OverlayDoc ==
  Document(ConfigMapGvk, "a", "", EmptyMap, EmptyMap, MapData([k \in {"k1"} |-> "v1"]))
BaseDoc ==
  Document(ConfigMapGvk, "b", "ns", [k \in {"env"} |-> "y"], [k \in {"note"} |-> "y"],
           MapData([k \in {"k1", "k2"} |-> "v2"]))

InitLife ==
  Start(AppendRefVarName(
          PushAll(AppendRefBy,
            PushAll(AddNameSuffix,
              PushAll(AddNamePrefix,
                LoadTwo(OverlayDoc, "nil", BaseDoc, "g1"),
                2, <<"q", "p", "q">>, 1),
              2, <<"p">>, 1),
            2, <<IdA, IdB>>, 1),
          2, [Name |-> "V"]))

NextLife ==
  \/ \E r \in Slots : SetNameStep(r, "c")
  \/ \E r \in Slots : SetNamespaceStep(r, "z")
  \/ \E r \in Slots : SetGvkStep(r, DeploymentGvk)
  \/ \E r \in Slots : SetLabelsStep(r, [k \in {"env"} |-> "x"])
  \/ \E r \in Slots : SetAnnotationsStep(r, [k \in {"note"} |-> "x"])
  \/ \E r, incoming \in Slots : r # incoming /\ ResetPrimaryDataStep(r, incoming)
  \/ \E r \in Slots, p \in Affixes : AddNamePrefixStep(r, p)
  \/ \E r \in Slots, p \in Affixes : AddNameSuffixStep(r, p)
  \/ \E r \in Slots, id \in SampleIds : AppendRefByStep(r, id)
  \/ \E r \in Slots, v \in VarNames : AppendRefVarNameStep(r, v)
  \/ \E r, o \in Slots : r # o /\ ReplaceStep(r, o)
  \/ \E r, o \in Slots : r # o /\ MergeStep(r, o)
  \/ \E r, c \in Slots : DeepCopyStep(r, c)

SpecLife == InitLife /\ [][NextLife]_vars

(***************************************************************************)
(* SpecData: the same two Resources with every shape of "data" field, and  *)
(* one merged into, replaced by or reset from the other.                   *)
(***************************************************************************)
DataFields == {NoData, ScalarData} \cup { MapData(m) : m \in Maps(DataKeys, DataVals) }

InitData ==
  \E d1, d2 \in DataFields, l1, l2 \in Maps({"env"}, LabelVals) :
    Start(AppendRefVarName(
            PushAll(AppendRefBy,
              PushAll(AddNameSuffix,
                PushAll(AddNamePrefix,
                  LoadTwo([OverlayDoc EXCEPT !.data = d1, !.labels = l1], "nil",
                          [BaseDoc EXCEPT !.data = d2, !.labels = l2], "g1"),
                  2, <<"q", "p">>, 1),
                2, <<"p">>, 1),
              2, <<IdA, IdB>>, 1),
            2, [Name |-> "V"]))

NextData ==
  \/ \E r, o \in Slots : MergeStep(r, o)
  \/ \E r, o \in Slots : ReplaceStep(r, o)
  \/ \E r, incoming \in Slots : ResetPrimaryDataStep(r, incoming)

SpecData == InitData /\ [][NextData]_vars

(***************************************************************************)
(* Claims about the comparison predicates (SpecCtx, SpecRef).              *)
(***************************************************************************)
Min(x, y) == IF x < y THEN x ELSE y

\* the ending-subsequence match of A and B as the specification words it
EndingMatch(A, B) ==
  LET la == Len(A)
      lb == Len(B)
      k == Min(la, lb)
  IN k = 0 \/ \A i \in 0..(k - 1) : A[la - i] = B[lb - i]

Range(seq) == { seq[n] : n \in 1..Len(seq) }

\* C1: PrefixesSuffixesEquals(self, other) is true iff the ending-subsequence
\* match holds for the prefix stacks and for the suffix stacks; for stacks of
\* equal length that is equality of the stacks.
C1_PrefixesSuffixesEquals ==
  last.op = "PrefixesSuffixesEquals" =>
    LET pa == GetNamePrefixes(Cur, last.self)
        pb == GetNamePrefixes(Cur, last.other)
        sa == GetNameSuffixes(Cur, last.self)
        sb == GetNameSuffixes(Cur, last.other)
    IN /\ last.ret = (EndingMatch(pa, pb) /\ EndingMatch(sa, sb))
       /\ Len(pa) = 0 /\ Len(sa) = 0 => last.ret
       /\ (Len(pa) = Len(pb) /\ Len(sa) = Len(sb)) => (last.ret = (pa = pb /\ sa = sb))

\* C1 witness: [x] against [a, x] with a # x is a match
C1_Witness ==
  /\ last.op = "PrefixesSuffixesEquals"
  /\ last.ret
  /\ LET pa == GetNamePrefixes(Cur, last.self)
         pb == GetNamePrefixes(Cur, last.other)
     IN Len(pa) = 1 /\ Len(pb) = 2 /\ pb[1] # pa[1]

\* C2: ReferencesEqual(self, other) is true iff the two referred-by lists hold
\* the same set of identities, whatever the order and the repetitions.
C2_ReferencesEqual ==
  last.op = "ReferencesEqual" =>
    last.ret = (Range(GetRefBy(Cur, last.self)) = Range(GetRefBy(Cur, last.other)))

\* C2 witness: [A, B, A] against [B, A] is equal
C2_Witness ==
  /\ last.op = "ReferencesEqual"
  /\ last.ret
  /\ LET a == GetRefBy(Cur, last.self)
         b == GetRefBy(Cur, last.other)
     IN Len(a) = 3 /\ Len(b) = 2 /\ a[1] = a[3] /\ a[1] # a[2] /\ b[1] = a[2] /\ b[2] = a[1]

\* C9 as claimed: whenever PrefixesSuffixesEquals is true, so is
\* OutermostPrefixSuffixEquals.
C9_DeeperImpliesOutermost ==
  (last.op = "PrefixesSuffixesEquals" /\ last.ret) =>
    OutermostPrefixSuffixEquals(Cur, last.self, last.other)

\* one stack is empty and the other's outermost element is a non-empty string
LoneOutermost(a, b) ==
  \/ Len(a) = 0 /\ Len(b) > 0 /\ b[Len(b)] # ""
  \/ Len(b) = 0 /\ Len(a) > 0 /\ a[Len(a)] # ""

\* C9 amended: whenever PrefixesSuffixesEquals is true, OutermostPrefixSuffixEquals
\* is true too, unless one Resource's prefix (or suffix) stack is empty while the
\* other's ends in a non-empty string; then the outermost comparison is false.
C9_DeeperImpliesOutermostAmended ==
  (last.op = "PrefixesSuffixesEquals" /\ last.ret) =>
    LET lone == \/ LoneOutermost(GetNamePrefixes(Cur, last.self), GetNamePrefixes(Cur, last.other))
                \/ LoneOutermost(GetNameSuffixes(Cur, last.self), GetNameSuffixes(Cur, last.other))
    IN OutermostPrefixSuffixEquals(Cur, last.self, last.other) = ~lone

\* C9 witness: a match of stacks of different non-zero lengths, one empty suffix
\* stack against one that ends in the empty string
C9_Witness ==
  /\ last.op = "PrefixesSuffixesEquals"
  /\ last.ret
  /\ Len(GetNamePrefixes(Cur, last.self)) = 2
  /\ Len(GetNamePrefixes(Cur, last.other)) = 1
  /\ GetNamePrefixes(Cur, last.self)[1] # GetNamePrefixes(Cur, last.other)[1]
  /\ Len(GetNameSuffixes(Cur, last.self)) = 0
  /\ Len(GetNameSuffixes(Cur, last.other)) = 1

(***************************************************************************)
(* Claims about Replace and Merge.                                         *)
(***************************************************************************)
\* the key-wise union of two maps in which mine wins every key both hold
UnionKeepMine(mine, theirs) ==
  [k \in DOMAIN mine \cup DOMAIN theirs |-> IF k \in DOMAIN mine THEN mine[k] ELSE theirs[k]]

IsCall(l, op, r, o) == l.op = op /\ l.self = r /\ l.other = o

\* C3: after self.Replace(other), self's labels are the key-wise union of
\* other's labels and self's labels before the call, self's value kept on every
\* key both hold; the annotations likewise.
C3_ReplaceUnitesLabels ==
  [][\A r, o \in Slots :
       IsCall(last', "Replace", r, o) =>
         /\ GetLabels(Cur', r) = UnionKeepMine(GetLabels(Cur, r), GetLabels(Cur, o))
         /\ DOMAIN GetLabels(Cur', r) = DOMAIN GetLabels(Cur, r) \cup DOMAIN GetLabels(Cur, o)
         /\ GetAnnotations(Cur', r) =
              UnionKeepMine(GetAnnotations(Cur, r), GetAnnotations(Cur, o))
         /\ DOMAIN GetAnnotations(Cur', r) =
              DOMAIN GetAnnotations(Cur, r) \cup DOMAIN GetAnnotations(Cur, o)]_vars

\* C3 witness: after a Replace, self holds a label key with a value other than
\* other's (a collision self won) and a label key with other's value, and an
\* annotation that differs from other's
C3_Witness ==
  /\ last.op = "Replace"
  /\ last.self # last.other
  /\ LET mine == GetLabels(Cur, last.self)
         theirs == GetLabels(Cur, last.other)
     IN /\ \E k \in DOMAIN mine \cap DOMAIN theirs : mine[k] # theirs[k]
        /\ \E k \in DOMAIN mine \cap DOMAIN theirs : mine[k] = theirs[k]
  /\ LET mine == GetAnnotations(Cur, last.self)
         theirs == GetAnnotations(Cur, last.other)
     IN \E k \in DOMAIN mine \cap DOMAIN theirs : mine[k] # theirs[k]

\* C4: after self.Replace(other), self's name and namespace are other's, and
\* self's originalName, originalNamespace, options, referred-by list,
\* referencing-variable list, prefix stack and suffix stack equal other's,
\* element for element.
C4_ReplaceAdoptsProvenance ==
  [][\A r, o \in Slots :
       IsCall(last', "Replace", r, o) =>
         /\ GetName(Cur', r) = GetName(Cur, o)
         /\ GetNamespace(Cur', r) = GetNamespace(Cur, o)
         /\ GetOriginalName(Cur', r) = GetOriginalName(Cur, o)
         /\ GetOriginalNs(Cur', r) = GetOriginalNs(Cur, o)
         /\ res'[r].options = res[o].options
         /\ GetRefBy(Cur', r) = GetRefBy(Cur, o)
         /\ GetRefVarNames(Cur', r) = GetRefVarNames(Cur, o)
         /\ GetNamePrefixes(Cur', r) = GetNamePrefixes(Cur, o)
         /\ GetNameSuffixes(Cur', r) = GetNameSuffixes(Cur, o)]_vars

\* C4 witness: the freshly loaded Resource has replaced itself by the base
\* Resource and holds its name, options and its four non-empty lists
C4_Witness ==
  /\ IsCall(last, "Replace", 1, 2)
  /\ GetName(Cur, 1) = "b" /\ GetNamespace(Cur, 1) = "ns"
  /\ GetOriginalName(Cur, 1) = "b" /\ res[1].options = "g1"
  /\ GetNamePrefixes(Cur, 1) = <<"q", "p", "q">>
  /\ GetNameSuffixes(Cur, 1) = <<"p">>
  /\ GetRefBy(Cur, 1) = <<IdA, IdB>>
  /\ GetRefVarNames(Cur, 1) = <<"V">>

DataMap(d) == IF d.data.tag = "map" THEN d.data.val ELSE EmptyMap

\* C5: after self.Merge(other), what Replace establishes holds (labels and
\* annotations united with self's values kept, name, namespace and provenance
\* fields other's), and self's "data" is a mapping: the key-wise union of other's
\* and self's "data" mappings before the call, self's value kept on every key
\* both hold, a "data" that is absent or no mapping counting as empty.
C5_MergeUnitesData ==
  [][\A r, o \in Slots :
       IsCall(last', "Merge", r, o) =>
         /\ Doc(Cur', r).data.tag = "map"
         /\ Doc(Cur', r).data.val = UnionKeepMine(DataMap(Doc(Cur, r)), DataMap(Doc(Cur, o)))
         /\ GetLabels(Cur', r) = UnionKeepMine(GetLabels(Cur, r), GetLabels(Cur, o))
         /\ GetAnnotations(Cur', r) =
              UnionKeepMine(GetAnnotations(Cur, r), GetAnnotations(Cur, o))
         /\ GetName(Cur', r) = GetName(Cur, o)
         /\ GetNamespace(Cur', r) = GetNamespace(Cur, o)
         /\ GetOriginalName(Cur', r) = GetOriginalName(Cur, o)
         /\ GetOriginalNs(Cur', r) = GetOriginalNs(Cur, o)
         /\ res'[r].options = res[o].options
         /\ GetRefBy(Cur', r) = GetRefBy(Cur, o)
         /\ GetRefVarNames(Cur', r) = GetRefVarNames(Cur, o)
         /\ GetNamePrefixes(Cur', r) = GetNamePrefixes(Cur, o)
         /\ GetNameSuffixes(Cur', r) = GetNameSuffixes(Cur, o)]_vars

\* C5 witness: after a Merge, self's "data" holds a key with a value other than
\* other's (a collision self won) and a key other's "data" gave it, and self
\* holds other's lists
C5_Witness ==
  /\ last.op = "Merge"
  /\ last.self # last.other
  /\ Doc(Cur, last.other).data.tag = "map"
  /\ LET mine == Doc(Cur, last.self).data.val
         theirs == Doc(Cur, last.other).data.val
     IN /\ \E k \in DOMAIN mine \cap DOMAIN theirs : mine[k] # theirs[k]
        /\ \E k \in DOMAIN mine \cap DOMAIN theirs : mine[k] = theirs[k]
  /\ Len(GetNamePrefixes(Cur, last.self)) = 2

\* C5 second witness: a document whose "data" is no mapping was merged into
C5_WitnessScalar ==
  /\ IsCall(last, "Merge", 2, 1)
  /\ Doc(Cur, 1).data.tag = "scalar"
  /\ Doc(Cur, 2).data = MapData(EmptyMap)

\* What a caller can observe of one Resource: its document and its lists
View(st, r) ==
  [doc |-> Doc(st, r),
   originalName |-> GetOriginalName(st, r),
   originalNs |-> GetOriginalNs(st, r),
   namePrefixes |-> GetNamePrefixes(st, r),
   nameSuffixes |-> GetNameSuffixes(st, r),
   refBy |-> GetRefBy(st, r),
   refVarNames |-> GetRefVarNames(st, r)]

Other(r) == CHOOSE o \in Slots : o # r

Mutations ==
  {"SetLabels", "SetAnnotations", "SetName", "SetNamespace", "AddNamePrefix",
   "AddNameSuffix", "AppendRefBy", "AppendRefVarName"}

\* C6: c = r.DeepCopy() leaves r as it was and gives c a document and lists
\* equal to r's, and every later SetLabels, SetAnnotations, SetName,
\* SetNamespace, AddNamePrefix, AddNameSuffix, AppendRefBy or AppendRefVarName
\* on either of the two leaves the document and the four lists of the other as
\* they were.
C6_DeepCopyIsIndependent ==
  [][/\ \A r, c \in Slots :
          IsCall(last', "DeepCopy", c, r) =>
            /\ View(Cur', r) = View(Cur, r)
            /\ View(Cur', c) = View(Cur, r)
            /\ res'[c].options = res[r].options
     /\ last'.op \in Mutations =>
          View(Cur', Other(last'.self)) = View(Cur, Other(last'.self))]_vars

\* C6 witness: the loaded Resource is a copy of the base Resource (its
\* document, original name and lists) that was then relabelled and pushed a
\* prefix, while the base Resource still holds its labels and its stack
C6_Witness ==
  /\ IsCall(last, "AddNamePrefix", 1, 1)
  /\ Doc(Cur, 1).data = BaseDoc.data
  /\ GetOriginalName(Cur, 1) = "b"
  /\ GetLabels(Cur, 1) # GetLabels(Cur, 2)
  /\ GetLabels(Cur, 2) = BaseDoc.labels
  /\ Len(GetNamePrefixes(Cur, 1)) = 4
  /\ GetNamePrefixes(Cur, 2) = <<"q", "p", "q">>

NotReplaceOrMerge ==
  {"SetLabels", "SetAnnotations", "SetName", "SetNamespace", "SetGvk",
   "ResetPrimaryData", "AddNamePrefix", "AddNameSuffix", "AppendRefBy",
   "AppendRefVarName"}

\* C7: under every operation other than Replace and Merge (SetName,
\* SetNamespace, SetGvk, ResetPrimaryData, the label and annotation setters,
\* the pushes and the appends) OrgId() of the Resource stays what it was,
\* while CurId() is built from the document's kind, name and namespace as
\* they are now.
C7_OrgIdImmutable ==
  [][last'.op \in NotReplaceOrMerge =>
       /\ OrgId(Cur', last'.self) = OrgId(Cur, last'.self)
       /\ CurId(Cur', last'.self) =
            NewResIdWithNamespace(GetGvk(Cur', last'.self),
                                  GetName(Cur', last'.self),
                                  GetNamespace(Cur', last'.self))]_vars

IsPrefix(s, t) == Len(s) <= Len(t) /\ SubSeq(t, 1, Len(s)) = s

\* C8: under every operation on a Resource, Replace and Merge included, its
\* referred-by list and its referencing-variable list after the call start
\* with what they were before it: entries are added at the end and never
\* removed.
C8_ListsOnlyGrow ==
  [][last'.op # "DeepCopy" =>
       /\ IsPrefix(GetRefBy(Cur, last'.self), GetRefBy(Cur', last'.self))
       /\ IsPrefix(GetRefVarNames(Cur, last'.self),
                   GetRefVarNames(Cur', last'.self))]_vars

\* C8 as the code has it: under every operation other than Replace and Merge
\* the two lists after the call start with what they were before it,
\* AppendRefBy and AppendRefVarName adding exactly their argument at the end;
\* Replace and Merge set both lists to other's, dropping self's entries.
C8_ListsOnlyGrowAmended ==
  [][/\ last'.op \notin {"DeepCopy", "Replace", "Merge"} =>
          /\ IsPrefix(GetRefBy(Cur, last'.self), GetRefBy(Cur', last'.self))
          /\ IsPrefix(GetRefVarNames(Cur, last'.self),
                      GetRefVarNames(Cur', last'.self))
     /\ last'.op = "AppendRefBy" =>
          /\ Len(GetRefBy(Cur', last'.self)) = Len(GetRefBy(Cur, last'.self)) + 1
          /\ GetRefVarNames(Cur', last'.self) = GetRefVarNames(Cur, last'.self)
     /\ last'.op = "AppendRefVarName" =>
          /\ Len(GetRefVarNames(Cur', last'.self)) =
               Len(GetRefVarNames(Cur, last'.self)) + 1
          /\ GetRefBy(Cur', last'.self) = GetRefBy(Cur, last'.self)
     /\ last'.op \in {"Replace", "Merge"} =>
          /\ GetRefBy(Cur', last'.self) = GetRefBy(Cur, last'.other)
          /\ GetRefVarNames(Cur', last'.self) =
               GetRefVarNames(Cur, last'.other)]_vars

\* C8 witness: an id was appended to the referred-by list of the base
\* Resource, which holds its two earlier ids in front of it
C8_Witness ==
  /\ IsCall(last, "AppendRefBy", 2, 2)
  /\ Len(GetRefBy(Cur, 2)) = 3
  /\ SubSeq(GetRefBy(Cur, 2), 1, 2) = <<IdA, IdB>>
  /\ GetRefVarNames(Cur, 2) = <<"V">>

\* C8 second witness: the base Resource replaced itself by a Resource that
\* nothing refers to, and its two ids are gone
C8_WitnessDropped ==
  /\ IsCall(last, "Replace", 2, 1)
  /\ GetRefBy(Cur, 2) = <<>>
  /\ GetRefVarNames(Cur, 2) = <<>>

Growers == {"AddNamePrefix", "AddNameSuffix", "AppendRefBy", "AppendRefVarName"}

\* C10: self.Replace(other) and self.Merge(other) leave other's document,
\* originalName, originalNamespace, prefix stack, suffix stack, referred-by
\* list and referencing-variable list as they were, and a later push or
\* append on either Resource leaves the lists of the other as they were.
C10_OtherUntouched ==
  [][/\ \A r, o \in Slots :
          (r # o /\ (IsCall(last', "Replace", r, o) \/ IsCall(last', "Merge", r, o))) =>
            /\ View(Cur', o) = View(Cur, o)
            /\ res'[o].options = res[o].options
     /\ last'.op \in Growers =>
          LET o == Other(last'.self)
          IN /\ GetNamePrefixes(Cur', o) = GetNamePrefixes(Cur, o)
             /\ GetNameSuffixes(Cur', o) = GetNameSuffixes(Cur, o)
             /\ GetRefBy(Cur', o) = GetRefBy(Cur, o)
             /\ GetRefVarNames(Cur', o) = GetRefVarNames(Cur, o)]_vars

\* C10 witness: the loaded Resource merged the base Resource into itself (its
\* "data" is the union) and then pushed a prefix; its stack is the base
\* Resource's with the prefix on top, and the base Resource's is as loaded
C10_Witness ==
  /\ IsCall(last, "AddNamePrefix", 1, 1)
  /\ Doc(Cur, 1).data = MapData(UnionKeepMine(OverlayDoc.data.val, BaseDoc.data.val))
  /\ GetOriginalName(Cur, 1) = "b"
  /\ SubSeq(GetNamePrefixes(Cur, 1), 1, 3) = <<"q", "p", "q">>
  /\ Len(GetNamePrefixes(Cur, 1)) = 4
  /\ GetNamePrefixes(Cur, 2) = <<"q", "p", "q">>
  /\ Doc(Cur, 2) = BaseDoc

====
